---- MODULE Spec2Model ----
\* Model of AWS-BACKUP.py: the incremental upload engine (backup_run), the hash
\* ledger (load_hash_db / save_hash_db_atomic), the interrupt flag and the
\* process exit code, over a sequence of processes (runs) sharing one disk.
EXTENDS Integers, Sequences, FiniteSets, TLC

\* ---------------------------------------------------------------------------
\* Bounds
\* ---------------------------------------------------------------------------
\* Processes started, and environment events (a file change between runs, an
\* injected put or save failure, a kill, a signal) in one behaviour.
MaxRuns == 2
MaxEvents == 2

\* ---------------------------------------------------------------------------
\* The disk the scan walks, and the configuration
\* ---------------------------------------------------------------------------
\* A path is the tuple of its components; the first is the drive or UNC share.
FileA == <<"C:", "Pictures", "a.jpg">>
FileB == <<"C:", "Pictures", "b.jpg">>
FileC == <<"E:", "Pictures", "a.jpg">>
FileD == <<"C:", "Users", "bob", "Pictures", "d.jpg">>
FileU == <<"\\\\WindowsNAS\\share", "Pictures", "u.jpg">>

\* The files os.walk yields, in walk order.
WalkOrder == <<FileA, FileB, FileC, FileD, FileU>>

Paths == {WalkOrder[i] : i \in 1..Len(WalkOrder)}

\* The drives and shares that can be plugged in or not.
Anchors == {WalkOrder[i][1] : i \in 1..Len(WalkOrder)}

\* Values of SOURCE_DRIVES_JSON that parse to a dict, in dict order: root -> drive name.
StdDrives ==
    << [source |-> <<"C:">>, drive_name |-> "MAIN"],
       [source |-> <<"E:">>, drive_name |-> "EXT"] >>
NestedDrives ==
    << [source |-> <<"C:">>, drive_name |-> "MAIN"],
       [source |-> <<"C:", "Users", "bob">>, drive_name |-> "BOB"] >>
UncDrives ==
    << [source |-> <<"C:">>, drive_name |-> "MAIN"],
       [source |-> <<"\\\\WindowsNAS\\share">>, drive_name |-> "NAS"] >>
\* Two roots under one label.
SharedDrives ==
    << [source |-> <<"C:">>, drive_name |-> "MAIN"],
       [source |-> <<"E:">>, drive_name |-> "MAIN"] >>
\* The fallback when SOURCE_DRIVES_JSON is unset, invalid or empty.
DefaultDrives == << [source |-> <<"C:">>, drive_name |-> "MAIN"] >>

\* The environment of a process: what S3_BUCKET, KMS_KEY_ARN, SNS_TOPIC_ARN and
\* SOURCE_DRIVES_JSON hold. SOURCE_DRIVES_JSON is "unset" (or invalid, or a falsy
\* JSON value), a "dict" with its table, or "other": a truthy JSON value that is
\* not a dict, such as ["C:\\"].
SetEnv(json_kind, table) ==
    [S3_BUCKET |-> "set", KMS_KEY_ARN |-> "set", SNS_TOPIC_ARN |-> "set",
     SOURCE_DRIVES_JSON |-> [kind |-> json_kind, table |-> table]]
StdEnv == SetEnv("dict", StdDrives)

Hashes == {"H1", "H2"}
Unreadable == "unreadable"
Absent == "absent"
Contents == Hashes \cup {Unreadable}
NoHash == "nohash"
NoKey == <<>>
NoPath == <<>>
NoSource == <<>>
TodayPrefix == "today"

\* A ledger held in memory: every path maps to its hash, or to NoHash when the
\* dict has no such key.
HashDbs == [Paths -> Hashes \cup {NoHash}]
EmptyDb == [p \in Paths |-> NoHash]

\* What a ledger file (canonical or temporary) can hold.
MissingFile == [kind |-> "missing", db |-> EmptyDb]
PartialFile == [kind |-> "partial", db |-> EmptyDb]
JsonFile(db) == [kind |-> "json", db |-> db]
\* Valid JSON that is not an object: a list such as [], for which dict() gives
\* {}, and a scalar such as null or 0, for which dict() raises.
ListFile == [kind |-> "list", db |-> EmptyDb]
ScalarFile == [kind |-> "scalar", db |-> EmptyDb]

\* ---------------------------------------------------------------------------
\* State
\* ---------------------------------------------------------------------------
VARIABLES
    fs,                    \* content (hash) of every file on disk, Unreadable or Absent
    online,                \* the drives and shares plugged in
    env,                   \* the environment variables the configuration is read from
    hash_db_file,          \* HASH_DB_FILE on disk
    tmp_file,              \* HASH_DB_FILE + ".tmp" on disk
    pc,                    \* position of the running process
    run_no,                \* processes started so far
    dry_run,               \* args.dry_run
    interrupted,           \* the module global _interrupted
    candidates,            \* the deduplicated (path, drive_name) list of backup_run
    drive_present,         \* gather_candidate_files: drive_name -> root present at scan
    idx,                   \* index into candidates of the file being processed
    persisted_hashes,      \* load_hash_db() result, when it is a dict
    persisted_is_dict,     \* load_hash_db() returned a dict
    updated_hashes,        \* working copy of the ledger
    content_hash_to_s3key, \* hash -> key of its first upload this run
    seen_paths,
    processed_files,
    drive_uploaded,        \* drive_name -> files uploaded or dry-uploaded this run
    file_hash,             \* compute_sha256 result for the current file
    uploaded_keys,
    run_manifest,
    report,
    exit_code,
    \* history variables
    put_calls,             \* s3.upload_file calls made by this process
    list_calls,            \* list_objects_v2 paginations started by this process
    sns_state,             \* sns.publish by this process: "none", "skipped", "sent", "failed"
    manifest_state,        \* the manifest file of this process: "none", "written", "failed"
    ledger_at_start,       \* hash_db_file when this process started
    save_state,            \* "none", "attempted", "saved" or "failed"
    last_uploaded,         \* per path: hash of its last real upload
    committed,             \* per path: hash of its last upload or dedup skip in a saved run
    prev_ok,               \* the previous process was a real run that exited 0
    fs_stable,             \* no file changed since the previous process
    failed_now,            \* paths whose put failed in this process
    failed_before,         \* paths whose put failed in the previous process, unchanged since
    events,                \* environment events so far
    save_arg,              \* the db passed to save_hash_db_atomic by this process
    crash_pc               \* pc at which the previous process was killed, or "none"

\* ---------------------------------------------------------------------------
\* Configuration
\* ---------------------------------------------------------------------------
\* SOURCE_DRIVES after the module has loaded; for a non-dict value the table is
\* not one, and SourceDrivesIsDict says so.
SourceDrivesIsDict == env.SOURCE_DRIVES_JSON.kind # "other"

SOURCE_DRIVES ==
    IF env.SOURCE_DRIVES_JSON.kind = "dict" /\ env.SOURCE_DRIVES_JSON.table # <<>>
    THEN env.SOURCE_DRIVES_JSON.table
    ELSE IF env.SOURCE_DRIVES_JSON.kind = "other" THEN <<>>
    ELSE DefaultDrives

\* S3_BUCKET and KMS_KEY_ARN: the configured value or the placeholder.
S3_BUCKET == IF env.S3_BUCKET = "set" THEN "bucket" ELSE "<REDACTED_BUCKET>"
KMS_KEY_ARN == IF env.KMS_KEY_ARN = "set" THEN "kms" ELSE "<REDACTED_KMS_ARN>"
\* A placeholder stands in for the bucket or for the key.
PlaceholderInUse ==
    S3_BUCKET = "<REDACTED_BUCKET>" \/ KMS_KEY_ARN = "<REDACTED_KMS_ARN>"
\* SNS_TOPIC_ARN, or None.
SNS_TOPIC_ARN == IF env.SNS_TOPIC_ARN = "set" THEN "topic" ELSE "None"

ALLOWED_FOLDER_NAMES == <<"Pictures", "Videos", "Desktop", "Downloads">>

\* EXCLUDE_PATH_PARTS, lower-cased, as token strings: each raw string starts with
\* two backslashes.
Sep == "\\"
EXCLUDE_PATH_PARTS ==
    << <<Sep, Sep, "windows">>,
       <<Sep, Sep, "program files">>,
       <<Sep, Sep, "program files (x86)">>,
       <<Sep, Sep, "system volume information">>,
       <<Sep, Sep, "$recycle.bin">>,
       <<Sep, Sep, "hiberfil.sys">>,
       <<Sep, Sep, "pagefile.sys">>,
       <<Sep, Sep, "swapfile.sys">>,
       <<Sep, Sep, "recovery">>,
       <<Sep, Sep, "perflogs">> >>

\* ---------------------------------------------------------------------------
\* Pure helpers
\* ---------------------------------------------------------------------------
\* str.startswith on normalised paths, by components.
StartsWith(p, root) ==
    /\ Len(root) <= Len(p)
    /\ SubSeq(p, 1, Len(root)) = root

\* load_hash_db: the mapping when the file exists and parses, else {}.
LoadHashDb(file) ==
    IF file.kind = "json" THEN file.db ELSE EmptyDb

\* load_hash_db returns whatever json.load gives: a dict unless the file holds
\* valid JSON of another type.
LoadsDict(file) == file.kind \notin {"list", "scalar"}

\* dict(persisted_hashes) raises: the loaded value is neither a dict nor an
\* iterable of pairs.
DictRaises(file) == file.kind = "scalar"

\* os.path.exists of a directory or file: its drive is plugged in and it is a
\* drive root, a file, or a directory holding a file.
Exists(d) ==
    /\ d[1] \in online
    /\ \/ Len(d) = 1
       \/ \E f \in Paths : fs[f] # Absent /\ StartsWith(f, d)

\* A path as Python sees it after lower(): its characters, grouped in tokens
\* (a separator, or a run of other characters).
LowerTokens(name) ==
    CASE name = "\\\\WindowsNAS\\share" -> <<Sep, Sep, "windowsnas", Sep, "share">>
      [] name = "C:" -> <<"c:">>
      [] name = "E:" -> <<"e:">>
      [] name = "Pictures" -> <<"pictures">>
      [] name = "Users" -> <<"users">>
      [] OTHER -> <<name>>

RECURSIVE LowerPath(_)
LowerPath(p) ==
    IF Len(p) = 0 THEN <<>>
    ELSE IF Len(p) = 1 THEN LowerTokens(p[1])
    ELSE LowerTokens(p[1]) \o <<Sep>> \o LowerPath(Tail(p))

\* t starts with the characters of s.
TokenStartsWith(t, s) ==
    t = s \/ <<t, s>> \in {<<"windowsnas", "windows">>}

\* part in p, for strings of tokens; a part ends inside a token at most.
Substring(part, p) ==
    \E i \in 1..(Len(p) - Len(part) + 1) :
        /\ \A k \in 1..(Len(part) - 1) : p[i + k - 1] = part[k]
        /\ TokenStartsWith(p[i + Len(part) - 1], part[Len(part)])

\* path_is_excluded: some exclusion part occurs in the lower-cased full path.
path_is_excluded(full_path, exclude_parts) ==
    \E n \in 1..Len(exclude_parts) : Substring(exclude_parts[n], LowerPath(full_path))

\* ASCII order of the component names, for sorted().
NameOrder ==
    <<"C:", "E:", "Pictures", "Users", "\\\\WindowsNAS\\share",
      "a.jpg", "b.jpg", "bob", "d.jpg", "u.jpg">>
NameRank(n) == CHOOSE i \in 1..Len(NameOrder) : NameOrder[i] = n

RECURSIVE PathLess(_, _)
PathLess(a, b) ==
    IF Len(a) = 0 THEN Len(b) > 0
    ELSE IF Len(b) = 0 THEN FALSE
    ELSE IF a[1] = b[1] THEN PathLess(Tail(a), Tail(b))
    ELSE NameRank(a[1]) < NameRank(b[1])

\* sorted(set(...)) of a set of paths.
RECURSIVE Sorted(_)
Sorted(S) ==
    IF S = {} THEN <<>>
    ELSE LET m == CHOOSE x \in S : \A y \in S \ {x} : PathLess(x, y)
         IN  <<m>> \o Sorted(S \ {m})

\* os.listdir(source_root\Users): the names directly under it.
UserNames(source_root) ==
    {f[Len(source_root) + 2] :
        f \in {g \in Paths : /\ fs[g] # Absent
                             /\ StartsWith(g, source_root \o <<"Users">>)
                             /\ Len(g) > Len(source_root) + 1}}

\* build_allowed_paths_for_source with no explicit paths: the allowed folders that
\* exist under the root and under each of its Users\<name>, sorted.
build_allowed_paths_for_source(source_root, allowed_folder_names) ==
    LET names == {allowed_folder_names[i] : i \in 1..Len(allowed_folder_names)}
        under_users ==
            IF Exists(source_root \o <<"Users">>)
            THEN {source_root \o <<"Users", u, n>> : u \in UserNames(source_root), n \in names}
            ELSE {}
        under_root == {source_root \o <<n>> : n \in names}
    IN  Sorted({d \in under_users \cup under_root : Exists(d)})

\* Walked without the check of the file's own path.
WalkedNoFileCheck(f, root_allowed) ==
    /\ fs[f] # Absent
    /\ StartsWith(f, root_allowed)
    /\ Len(f) > Len(root_allowed)
    /\ \A n \in (Len(root_allowed) + 1)..(Len(f) - 1) :
           ~path_is_excluded(SubSeq(f, 1, n), EXCLUDE_PATH_PARTS)

\* os.walk(root_allowed) with its pruning: a file is reached when no directory
\* between the root and the file is excluded, and kept when it is not excluded.
Walked(f, root_allowed) ==
    /\ fs[f] # Absent
    /\ StartsWith(f, root_allowed)
    /\ Len(f) > Len(root_allowed)
    /\ \A n \in (Len(root_allowed) + 1)..(Len(f) - 1) :
           ~path_is_excluded(SubSeq(f, 1, n), EXCLUDE_PATH_PARTS)
    /\ ~path_is_excluded(f, EXCLUDE_PATH_PARTS)

\* allowed_roots of the source at position s of SOURCE_DRIVES.
AllowedRoots(s) ==
    build_allowed_paths_for_source(SOURCE_DRIVES[s].source, ALLOWED_FOLDER_NAMES)

\* The candidates appended for the allowed root at position r of source s.
RECURSIVE WalkSource(_, _, _)
WalkSource(s, r, i) ==
    IF i > Len(WalkOrder) THEN <<>>
    ELSE (IF Walked(WalkOrder[i], AllowedRoots(s)[r])
          THEN << [path |-> WalkOrder[i],
                   drive_name |-> SOURCE_DRIVES[s].drive_name] >>
          ELSE <<>>) \o WalkSource(s, r, i + 1)

\* The candidates appended for source s, allowed root by allowed root.
RECURSIVE WalkRoots(_, _)
WalkRoots(s, r) ==
    IF r > Len(AllowedRoots(s)) THEN <<>>
    ELSE WalkSource(s, r, 1) \o WalkRoots(s, r + 1)

\* GatherFrom that gives up the scan at the first root that does not exist.
RECURSIVE GatherFromStopsAtMissing(_)
GatherFromStopsAtMissing(s) ==
    IF s > Len(SOURCE_DRIVES) THEN <<>>
    ELSE IF Exists(SOURCE_DRIVES[s].source)
         THEN WalkRoots(s, 1) \o GatherFromStopsAtMissing(s + 1)
         ELSE <<>>

\* Source by source; a root that does not exist is skipped.
RECURSIVE GatherFrom(_)
GatherFrom(s) ==
    IF s > Len(SOURCE_DRIVES) THEN <<>>
    ELSE (IF Exists(SOURCE_DRIVES[s].source) THEN WalkRoots(s, 1) ELSE <<>>)
         \o GatherFrom(s + 1)

\* gather_candidate_files, first result: (path, drive_name) pairs, source by source.
GatherCandidateFiles == GatherFrom(1)

\* The drive names of the configured sources.
DriveNames == {SOURCE_DRIVES[s].drive_name : s \in 1..Len(SOURCE_DRIVES)}

\* gather_candidate_files, second result: drive_name -> root present; a later
\* source with the same drive name overwrites an earlier one.
DrivePresent ==
    [dn \in DriveNames |->
        LET last == CHOOSE s \in 1..Len(SOURCE_DRIVES) :
                        /\ SOURCE_DRIVES[s].drive_name = dn
                        /\ \A t \in (s + 1)..Len(SOURCE_DRIVES) :
                               SOURCE_DRIVES[t].drive_name # dn
        IN  Exists(SOURCE_DRIVES[last].source)]

\* list(dict.fromkeys(candidates)): drop repeated pairs, keep first occurrences.
RECURSIVE DictFromKeys(_, _)
DictFromKeys(s, i) ==
    IF i > Len(s) THEN <<>>
    ELSE (IF \E j \in 1..(i - 1) : s[j] = s[i] THEN <<>> ELSE << s[i] >>)
         \o DictFromKeys(s, i + 1)

\* The candidate list backup_run works from.
Candidates == candidates

total_files == Len(candidates)

\* drive_totals: drive_name -> candidates with that drive name.
drive_totals ==
    [dn \in DriveNames |->
        Cardinality({i \in 1..Len(candidates) : candidates[i].drive_name = dn})]

\* The first source root (dict order) the path starts with, or NoSource.
RECURSIVE MatchedSourceFrom(_, _)
MatchedSourceFrom(abs_path, s) ==
    IF s > Len(SOURCE_DRIVES) THEN NoSource
    ELSE IF StartsWith(abs_path, SOURCE_DRIVES[s].source)
         THEN SOURCE_DRIVES[s].source
         ELSE MatchedSourceFrom(abs_path, s + 1)

MatchedSource(abs_path) == MatchedSourceFrom(abs_path, 1)

\* s3_key = today_prefix/drive_name/relpath.
S3Key(abs_path, drive_name) ==
    LET ms == MatchedSource(abs_path)
        relpath == IF ms # NoSource
                   THEN SubSeq(abs_path, Len(ms) + 1, Len(abs_path))
                   ELSE << abs_path[Len(abs_path)] >>
    IN  <<TodayPrefix, drive_name>> \o relpath

\* run_manifest, by its lists. An entry is modelled by the path and key it is
\* made from; mask_path_for_output and mask_s3_key only render them for output.
EmptyManifest ==
    [uploaded |-> <<>>, skipped_duplicates |-> <<>>, unchanged |-> <<>>,
     errors |-> <<>>, progress_samples |-> <<>>, files_uploaded_count |-> 0,
     files_processed_count |-> 0, interrupted |-> FALSE]

\* No drive name has a count: before backup_run builds its per-drive dicts.
NoDrives == [dn \in {} |-> 0]

NoReport ==
    [built |-> FALSE, interrupted |-> FALSE, errors |-> <<>>,
     files_processed |-> 0, files_uploaded |-> 0, drive_report_lines |-> <<>>]
NoExit == -1

procVars ==
    <<pc, dry_run, interrupted, candidates, drive_present, idx, persisted_hashes,
      persisted_is_dict, updated_hashes, content_hash_to_s3key, seen_paths, processed_files,
      drive_uploaded, file_hash, uploaded_keys, run_manifest, report, exit_code>>
diskVars == <<fs, hash_db_file, tmp_file>>
envVars == <<online, env>>
outVars == <<sns_state, manifest_state>>
histVars ==
    <<put_calls, list_calls, outVars, ledger_at_start, save_state, last_uploaded,
      committed, prev_ok, fs_stable, failed_now, failed_before,
      events, save_arg, crash_pc>>
vars == <<procVars, diskVars, envVars, histVars, run_no>>

\* A process has not started yet: nothing in memory, nothing done.
NotStarted ==
    /\ candidates = <<>>
    /\ drive_present = NoDrives
    /\ processed_files = 0
    /\ drive_uploaded = NoDrives
    /\ list_calls = 0
    /\ sns_state = "none"
    /\ manifest_state = "none"
    /\ tmp_file = MissingFile
    /\ pc = "idle"
    /\ run_no = 0
    /\ dry_run = FALSE
    /\ interrupted = FALSE
    /\ idx = 0
    /\ persisted_hashes = EmptyDb
    /\ persisted_is_dict = TRUE
    /\ updated_hashes = EmptyDb
    /\ content_hash_to_s3key = [h \in Hashes |-> NoKey]
    /\ seen_paths = {}
    /\ file_hash = NoHash
    /\ uploaded_keys = <<>>
    /\ run_manifest = EmptyManifest
    /\ report = NoReport
    /\ exit_code = NoExit
    /\ put_calls = 0
    /\ ledger_at_start = MissingFile
    /\ save_state = "none"
    /\ last_uploaded = EmptyDb
    /\ committed = EmptyDb
    /\ prev_ok = FALSE
    /\ fs_stable = FALSE
    /\ failed_now = {}
    /\ failed_before = {}
    /\ events = 0
    /\ save_arg = EmptyDb
    /\ crash_pc = "none"

\* What a first process finds: the three files of the C: and E: drives with any
\* content, both drives plugged in, every setting configured, no ledger yet.
Init ==
    /\ fs \in {f \in [Paths -> Contents \cup {Absent}] :
                  /\ \A p \in {FileA, FileB, FileC} : f[p] # Absent
                  /\ \A p \in {FileD, FileU} : f[p] = Absent}
    /\ online = {"C:", "E:"}
    /\ env = StdEnv
    /\ hash_db_file = MissingFile
    /\ NotStarted

\* ---------------------------------------------------------------------------
\* Process start and the pre-warn wait
\* ---------------------------------------------------------------------------
\* A new process: module globals are initialised, the arguments are parsed.
StartProcess(d) ==
    /\ pc = "idle"
    /\ run_no < MaxRuns
    /\ run_no' = run_no + 1
    /\ pc' = "prewarn"
    /\ dry_run' = d
    /\ interrupted' = FALSE
    /\ put_calls' = 0
    /\ ledger_at_start' = hash_db_file
    /\ save_state' = "none"
    /\ save_arg' = EmptyDb
    /\ failed_before' = failed_now
    /\ failed_now' = {}
    /\ UNCHANGED <<idx, persisted_hashes, updated_hashes, content_hash_to_s3key,
                   seen_paths, file_hash, uploaded_keys, run_manifest, report,
                   exit_code, diskVars, last_uploaded, committed,
                   prev_ok, fs_stable, crash_pc, events>>
    /\ list_calls' = 0
    /\ sns_state' = "none"
    /\ manifest_state' = "none"
    /\ UNCHANGED <<candidates, drive_present, processed_files, drive_uploaded,
                   persisted_is_dict, envVars>>

\* _signal_handler: SIGINT or SIGTERM delivered to the live process.
SignalHandler ==
    /\ pc \notin {"idle", "done"}
    /\ ~interrupted
    /\ events < MaxEvents
    /\ interrupted' = TRUE
    /\ events' = events + 1
    /\ UNCHANGED <<candidates, drive_present, processed_files, drive_uploaded, list_calls,
                   outVars, envVars, persisted_is_dict,
                   pc, dry_run, idx, persisted_hashes, updated_hashes,
                   content_hash_to_s3key, seen_paths, file_hash, uploaded_keys,
                   run_manifest, report, exit_code, diskVars, run_no, put_calls,
                   ledger_at_start, save_state, last_uploaded,
                   committed, prev_ok, fs_stable, failed_now,
                   failed_before, save_arg, crash_pc>>

\* The pre-warn wait: it ends early when interrupted, and the run starts anyway.
Prewarn ==
    /\ pc = "prewarn"
    /\ pc' = "start"
    /\ UNCHANGED <<candidates, drive_present, processed_files, drive_uploaded, envVars,
                   persisted_is_dict,
                   dry_run, interrupted, idx, persisted_hashes, updated_hashes,
                   content_hash_to_s3key, seen_paths, file_hash, uploaded_keys,
                   run_manifest, report, exit_code, diskVars, histVars, run_no>>

\* BackupRunStart whose working copy starts empty instead of as a copy of the
\* loaded ledger.
BackupRunStartFreshLedger ==
    /\ pc = "start"
    /\ ~DictRaises(hash_db_file)
    /\ SourceDrivesIsDict
    /\ persisted_hashes' = LoadHashDb(hash_db_file)
    /\ persisted_is_dict' = LoadsDict(hash_db_file)
    /\ updated_hashes' = EmptyDb
    /\ uploaded_keys' = <<>>
    /\ run_manifest' = EmptyManifest
    /\ content_hash_to_s3key' = [h \in Hashes |-> NoKey]
    /\ seen_paths' = {}
    /\ \E gathered \in {GatherCandidateFiles} :
           candidates' = DictFromKeys(gathered, 1)
    /\ drive_present' = DrivePresent
    /\ processed_files' = 0
    /\ drive_uploaded' = [dn \in DriveNames |-> 0]
    /\ idx' = 1
    /\ pc' = "loop"
    /\ UNCHANGED <<envVars,
                   dry_run, interrupted, file_hash, report, exit_code, diskVars,
                   histVars, run_no>>

\* ---------------------------------------------------------------------------
\* backup_run
\* ---------------------------------------------------------------------------
\* Load the ledger, copy it, scan, reset the per-run collections.
BackupRunStart ==
    /\ pc = "start"
    /\ ~DictRaises(hash_db_file)
    /\ SourceDrivesIsDict
    /\ persisted_hashes' = LoadHashDb(hash_db_file)
    /\ persisted_is_dict' = LoadsDict(hash_db_file)
    /\ updated_hashes' = LoadHashDb(hash_db_file)
    /\ uploaded_keys' = <<>>
    /\ run_manifest' = EmptyManifest
    /\ content_hash_to_s3key' = [h \in Hashes |-> NoKey]
    /\ seen_paths' = {}
    /\ \E gathered \in {GatherCandidateFiles} :
           candidates' = DictFromKeys(gathered, 1)
    /\ drive_present' = DrivePresent
    /\ processed_files' = 0
    /\ drive_uploaded' = [dn \in DriveNames |-> 0]
    /\ idx' = 1
    /\ pc' = "loop"
    /\ UNCHANGED <<envVars,
                   dry_run, interrupted, file_hash, report, exit_code, diskVars,
                   histVars, run_no>>

\* open(path, "rb") and the reads succeed: the drive is plugged in and the file
\* is there and readable.
Readable(p) == p[1] \in online /\ fs[p] \in Hashes

abs_path == Candidates[idx].path
drive_name == Candidates[idx].drive_name
s3_key == S3Key(abs_path, drive_name)

loopFrame ==
    <<candidates, drive_present, list_calls, outVars, envVars,
      dry_run, interrupted, persisted_hashes, persisted_is_dict, report, exit_code,
      diskVars, run_no, ledger_at_start, save_state, committed, prev_ok, fs_stable, failed_before, save_arg, crash_pc>>

\* The for loop has no candidate left.
LoopDone ==
    /\ pc = "loop"
    /\ idx > Len(Candidates)
    /\ pc' = "finish"
    /\ UNCHANGED <<processed_files, drive_uploaded,
                   idx, updated_hashes, content_hash_to_s3key, seen_paths, file_hash,
                   uploaded_keys, run_manifest, put_calls, last_uploaded, failed_now, events, loopFrame>>

\* LoopBreak that leaves backup_run's tail out: no save after an interrupt.
LoopBreakSkipsSave ==
    /\ pc = "loop"
    /\ idx <= Len(Candidates)
    /\ interrupted
    /\ pc' = "report"
    /\ UNCHANGED <<processed_files, drive_uploaded,
                   idx, updated_hashes, content_hash_to_s3key, seen_paths, file_hash,
                   uploaded_keys, run_manifest, put_calls, last_uploaded, failed_now,
                   events, loopFrame>>

\* LoopBreak that records the candidate it stops at as failed.
LoopBreakMarksFailed ==
    /\ pc = "loop"
    /\ idx <= Len(Candidates)
    /\ interrupted
    /\ run_manifest' = [run_manifest EXCEPT
           !.errors = Append(@, [path |-> abs_path, error |-> "upload"])]
    /\ pc' = "finish"
    /\ UNCHANGED <<processed_files, drive_uploaded,
                   idx, updated_hashes, content_hash_to_s3key, seen_paths, file_hash,
                   uploaded_keys, put_calls, last_uploaded, failed_now, events,
                   loopFrame>>

\* LoopBreak that counts the file it stops at as processed.
LoopBreakCountsFile ==
    /\ pc = "loop"
    /\ idx <= Len(Candidates)
    /\ interrupted
    /\ pc' = "finish"
    /\ processed_files' = processed_files + 1
    /\ UNCHANGED <<drive_uploaded,
                   idx, updated_hashes, content_hash_to_s3key, seen_paths, file_hash,
                   uploaded_keys, run_manifest, put_calls, last_uploaded, failed_now, events, loopFrame>>

\* if _interrupted: break
LoopBreak ==
    /\ pc = "loop"
    /\ idx <= Len(Candidates)
    /\ interrupted
    /\ pc' = "finish"
    /\ UNCHANGED <<processed_files, drive_uploaded,
                   idx, updated_hashes, content_hash_to_s3key, seen_paths, file_hash,
                   uploaded_keys, run_manifest, put_calls, last_uploaded, failed_now, events, loopFrame>>

\* The next candidate: skipped when its path was seen, else its processing begins.
LoopNext ==
    /\ pc = "loop"
    /\ idx <= Len(Candidates)
    /\ ~interrupted
    /\ IF abs_path \in seen_paths
       THEN /\ idx' = idx + 1
            /\ UNCHANGED <<pc, seen_paths, processed_files>>
       ELSE /\ seen_paths' = seen_paths \cup {abs_path}
            /\ processed_files' = processed_files + 1
            /\ pc' = "hash"
            /\ UNCHANGED idx
    /\ UNCHANGED <<drive_uploaded,
                   updated_hashes, content_hash_to_s3key, file_hash, uploaded_keys,
                   run_manifest, put_calls, last_uploaded, failed_now,
                   events, loopFrame>>

\* compute_sha256 succeeds.
HashOk ==
    /\ pc = "hash"
    /\ Readable(abs_path)
    /\ file_hash' = fs[abs_path]
    /\ pc' = "decide"
    /\ UNCHANGED <<processed_files, drive_uploaded,
                   idx, updated_hashes, content_hash_to_s3key, seen_paths,
                   uploaded_keys, run_manifest, put_calls, last_uploaded, failed_now, events, loopFrame>>

\* HashError that gives up on the remaining candidates.
HashErrorAborts ==
    /\ pc = "hash"
    /\ ~Readable(abs_path)
    /\ run_manifest' = [run_manifest EXCEPT
           !.errors = Append(@, [path |-> abs_path, error |-> "hash"])]
    /\ idx' = idx + 1
    /\ pc' = "finish"
    /\ UNCHANGED <<processed_files, drive_uploaded,
                   updated_hashes, content_hash_to_s3key, seen_paths, file_hash,
                   uploaded_keys, put_calls, last_uploaded, failed_now, events,
                   loopFrame>>

\* compute_sha256 raises: the error is recorded and the loop continues.
HashError ==
    /\ pc = "hash"
    /\ ~Readable(abs_path)
    /\ run_manifest' = [run_manifest EXCEPT
           !.errors = Append(@, [path |-> abs_path, error |-> "hash"])]
    /\ idx' = idx + 1
    /\ pc' = "loop"
    /\ UNCHANGED <<processed_files, drive_uploaded,
                   updated_hashes, content_hash_to_s3key, seen_paths, file_hash,
                   uploaded_keys, put_calls, last_uploaded, failed_now,
                   events, loopFrame>>

\* DuplicateSkip without recording the hash for the path.
DuplicateSkipNoLedger ==
    /\ pc = "decide"
    /\ content_hash_to_s3key[file_hash] # NoKey
    /\ run_manifest' = [run_manifest EXCEPT
           !.skipped_duplicates = Append(@,
               [path |-> abs_path,
                existing_s3_key |-> content_hash_to_s3key[file_hash]])]
    /\ idx' = idx + 1
    /\ pc' = "loop"
    /\ UNCHANGED <<processed_files, drive_uploaded,
                   updated_hashes, content_hash_to_s3key, seen_paths, file_hash,
                   uploaded_keys, put_calls, last_uploaded, failed_now, events,
                   loopFrame>>

\* Same content already uploaded in this run: skip, record the hash for the path.
DuplicateSkip ==
    /\ pc = "decide"
    /\ content_hash_to_s3key[file_hash] # NoKey
    /\ run_manifest' = [run_manifest EXCEPT
           !.skipped_duplicates = Append(@,
               [path |-> abs_path,
                existing_s3_key |-> content_hash_to_s3key[file_hash]])]
    /\ updated_hashes' = [updated_hashes EXCEPT ![abs_path] = file_hash]
    /\ idx' = idx + 1
    /\ pc' = "loop"
    /\ UNCHANGED <<processed_files, drive_uploaded,
                   content_hash_to_s3key, seen_paths, file_hash, uploaded_keys,
                   put_calls, last_uploaded, failed_now, events, loopFrame>>

\* UnchangedSkip that drops the path's entry from the working ledger.
UnchangedSkipDropsEntry ==
    /\ pc = "decide"
    /\ content_hash_to_s3key[file_hash] = NoKey
    /\ persisted_is_dict
    /\ persisted_hashes[abs_path] = file_hash
    /\ run_manifest' = [run_manifest EXCEPT !.unchanged = Append(@, abs_path)]
    /\ updated_hashes' = [updated_hashes EXCEPT ![abs_path] = NoHash]
    /\ idx' = idx + 1
    /\ pc' = "loop"
    /\ UNCHANGED <<processed_files, drive_uploaded,
                   content_hash_to_s3key, seen_paths, file_hash,
                   uploaded_keys, put_calls, last_uploaded, failed_now,
                   events, loopFrame>>

\* The loaded ledger has this hash for this path: skip.
UnchangedSkip ==
    /\ pc = "decide"
    /\ content_hash_to_s3key[file_hash] = NoKey
    /\ persisted_is_dict
    /\ persisted_hashes[abs_path] = file_hash
    /\ run_manifest' = [run_manifest EXCEPT !.unchanged = Append(@, abs_path)]
    /\ idx' = idx + 1
    /\ pc' = "loop"
    /\ UNCHANGED <<processed_files, drive_uploaded,
                   updated_hashes, content_hash_to_s3key, seen_paths, file_hash,
                   uploaded_keys, put_calls, last_uploaded, failed_now,
                   events, loopFrame>>

MustTransfer ==
    /\ pc = "decide"
    /\ content_hash_to_s3key[file_hash] = NoKey
    /\ persisted_is_dict
    /\ persisted_hashes[abs_path] # file_hash

\* RecordUpload without the ledger update.
RecordUploadNoLedger(action) ==
    /\ run_manifest' = [run_manifest EXCEPT
           !.uploaded = Append(@,
               [path |-> abs_path, s3_key |-> s3_key, hash |-> file_hash,
                action |-> action]),
           !.progress_samples = Append(@, processed_files)]
    /\ content_hash_to_s3key' = [content_hash_to_s3key EXCEPT ![file_hash] = s3_key]
    /\ uploaded_keys' = Append(uploaded_keys, s3_key)
    /\ drive_uploaded' = [drive_uploaded EXCEPT ![drive_name] = @ + 1]
    /\ UNCHANGED updated_hashes

\* The bookkeeping both upload branches do on success.
RecordUpload(action) ==
    /\ run_manifest' = [run_manifest EXCEPT
           !.uploaded = Append(@,
               [path |-> abs_path, s3_key |-> s3_key, hash |-> file_hash,
                action |-> action]),
           !.progress_samples = Append(@, processed_files)]
    /\ content_hash_to_s3key' = [content_hash_to_s3key EXCEPT ![file_hash] = s3_key]
    /\ uploaded_keys' = Append(uploaded_keys, s3_key)
    /\ drive_uploaded' = [drive_uploaded EXCEPT ![drive_name] = @ + 1]
    /\ updated_hashes' = [updated_hashes EXCEPT ![abs_path] = file_hash]

\* dry_run: the upload is simulated.
DryUpload ==
    /\ MustTransfer
    /\ dry_run
    /\ RecordUpload("dry_upload")
    /\ idx' = idx + 1
    /\ pc' = "loop"
    /\ UNCHANGED <<processed_files,
                   seen_paths, file_hash, put_calls, last_uploaded, failed_now,
                   events, loopFrame>>

\* s3.upload_file returns.
UploadOk ==
    /\ MustTransfer
    /\ ~dry_run
    /\ Readable(abs_path)
    /\ ~PlaceholderInUse
    /\ put_calls' = put_calls + 1
    /\ RecordUpload("uploaded")
    /\ last_uploaded' = [last_uploaded EXCEPT ![abs_path] = file_hash]
    /\ idx' = idx + 1
    /\ pc' = "loop"
    /\ UNCHANGED <<processed_files,
                   seen_paths, file_hash, failed_now, events, loopFrame>>

\* UploadFail that records the hash in the working ledger all the same.
UploadFailUpdatesLedger ==
    /\ MustTransfer
    /\ ~dry_run
    /\ events < MaxEvents
    /\ events' = events + 1
    /\ put_calls' = put_calls + 1
    /\ run_manifest' = [run_manifest EXCEPT
           !.errors = Append(@, [path |-> abs_path, error |-> "upload"]),
           !.progress_samples = Append(@, processed_files)]
    /\ updated_hashes' = [updated_hashes EXCEPT ![abs_path] = file_hash]
    /\ failed_now' = failed_now \cup {abs_path}
    /\ idx' = idx + 1
    /\ pc' = "loop"
    /\ UNCHANGED <<processed_files, drive_uploaded,
                   content_hash_to_s3key, seen_paths, file_hash, uploaded_keys,
                   last_uploaded, loopFrame>>

\* s3.upload_file raises: the error is recorded, the ledger is not touched.
UploadFail ==
    /\ MustTransfer
    /\ ~dry_run
    /\ events < MaxEvents
    /\ events' = events + 1
    /\ put_calls' = put_calls + 1
    /\ run_manifest' = [run_manifest EXCEPT
           !.errors = Append(@, [path |-> abs_path, error |-> "upload"]),
           !.progress_samples = Append(@, processed_files)]
    /\ failed_now' = failed_now \cup {abs_path}
    /\ idx' = idx + 1
    /\ pc' = "loop"
    /\ UNCHANGED <<processed_files, drive_uploaded,
                   updated_hashes, content_hash_to_s3key, seen_paths, file_hash,
                   uploaded_keys, last_uploaded, loopFrame>>

\* s3.upload_file raises because the file can no longer be opened.
UploadFileGone ==
    /\ MustTransfer
    /\ ~dry_run
    /\ ~Readable(abs_path)
    /\ put_calls' = put_calls + 1
    /\ run_manifest' = [run_manifest EXCEPT
           !.errors = Append(@, [path |-> abs_path, error |-> "upload"]),
           !.progress_samples = Append(@, processed_files)]
    /\ failed_now' = failed_now \cup {abs_path}
    /\ idx' = idx + 1
    /\ pc' = "loop"
    /\ UNCHANGED <<processed_files, drive_uploaded,
                   updated_hashes, content_hash_to_s3key, seen_paths, file_hash,
                   uploaded_keys, last_uploaded, events, loopFrame>>

\* s3.upload_file is called with the placeholder bucket or key and raises: no
\* bucket has that name, no key that ARN.
UploadRejected ==
    /\ MustTransfer
    /\ ~dry_run
    /\ PlaceholderInUse
    /\ put_calls' = put_calls + 1
    /\ run_manifest' = [run_manifest EXCEPT
           !.errors = Append(@, [path |-> abs_path, error |-> "upload"]),
           !.progress_samples = Append(@, processed_files)]
    /\ failed_now' = failed_now \cup {abs_path}
    /\ idx' = idx + 1
    /\ pc' = "loop"
    /\ UNCHANGED <<processed_files, drive_uploaded,
                   updated_hashes, content_hash_to_s3key, seen_paths, file_hash,
                   uploaded_keys, last_uploaded, events, loopFrame>>

\* ---------------------------------------------------------------------------
\* After the loop: manifest totals, ledger save, report
\* ---------------------------------------------------------------------------
tailFrame ==
    <<candidates, drive_present, processed_files, drive_uploaded, outVars, envVars,
      dry_run, interrupted, idx, persisted_hashes, persisted_is_dict, updated_hashes,
      content_hash_to_s3key, seen_paths, file_hash, uploaded_keys, exit_code, fs,
      run_no, put_calls, ledger_at_start, last_uploaded, prev_ok,
      fs_stable, failed_now, failed_before, crash_pc>>

\* Finish that goes on to save the ledger in dry-run mode too.
FinishAlwaysSaves ==
    /\ pc = "finish"
    /\ run_manifest' = [run_manifest EXCEPT
           !.files_uploaded_count = Len(uploaded_keys),
           !.files_processed_count = processed_files,
           !.interrupted = interrupted]
    /\ pc' = "save"
    /\ UNCHANGED <<list_calls,
                   report, hash_db_file, tmp_file, save_state, save_arg, committed,
                   events, tailFrame>>

\* run_manifest["interrupted"] = bool(_interrupted); then save unless dry_run.
Finish ==
    /\ pc = "finish"
    /\ run_manifest' = [run_manifest EXCEPT
           !.files_uploaded_count = Len(uploaded_keys),
           !.files_processed_count = processed_files,
           !.interrupted = interrupted]
    /\ pc' = IF dry_run THEN "report" ELSE "save"
    /\ UNCHANGED <<list_calls,
                   report, hash_db_file, tmp_file, save_state, save_arg, committed,
                   events, tailFrame>>

\* A save that opens HASH_DB_FILE itself for writing instead of the temp file.
SaveOpenInPlace ==
    /\ pc = "save"
    /\ hash_db_file' = PartialFile
    /\ save_arg' = updated_hashes
    /\ save_state' = "attempted"
    /\ pc' = "save_dump"
    /\ UNCHANGED <<list_calls,
                   run_manifest, report, tmp_file, committed, events, tailFrame>>

\* save_hash_db_atomic, step 1: open(tmp, "w") creates or truncates the temp file.
SaveOpenTmp ==
    /\ pc = "save"
    /\ tmp_file' = PartialFile
    /\ save_arg' = updated_hashes
    /\ save_state' = "attempted"
    /\ pc' = "save_dump"
    /\ UNCHANGED <<list_calls,
                   run_manifest, report, hash_db_file, committed, events, tailFrame>>

\* save_hash_db_atomic, step 2: json.dump completes and the temp file is closed.
SaveDump ==
    /\ pc = "save_dump"
    /\ tmp_file' = JsonFile(save_arg)
    /\ pc' = "save_replace"
    /\ UNCHANGED <<list_calls,
                   run_manifest, report, hash_db_file, save_state, save_arg, committed,
                   events, tailFrame>>

\* The hash each path got from an upload or a duplicate skip of this run.
RunHashes(db) ==
    [p \in Paths |->
        IF \E i \in 1..Len(run_manifest.uploaded) : run_manifest.uploaded[i].path = p
        THEN fs[p]
        ELSE IF \E i \in 1..Len(run_manifest.skipped_duplicates) :
                    run_manifest.skipped_duplicates[i].path = p
        THEN fs[p]
        ELSE db[p]]

\* save_hash_db_atomic, step 3: os.replace(tmp, HASH_DB_FILE).
SaveReplace ==
    /\ pc = "save_replace"
    /\ hash_db_file' = tmp_file
    /\ tmp_file' = MissingFile
    /\ save_state' = "saved"
    /\ committed' = RunHashes(committed)
    /\ pc' = "report"
    /\ UNCHANGED <<list_calls,
                   run_manifest, report, save_arg, events, tailFrame>>

\* save_hash_db_atomic raises at any of its steps: logged, surfaced in the manifest.
SaveFail ==
    /\ pc \in {"save", "save_dump", "save_replace"}
    /\ events < MaxEvents
    /\ events' = events + 1
    /\ run_manifest' = [run_manifest EXCEPT
           !.errors = Append(@, [path |-> NoPath, error |-> "save_hash_db"])]
    /\ save_arg' = updated_hashes
    /\ save_state' = "failed"
    /\ pc' = "report"
    /\ UNCHANGED <<list_calls,
                   report, hash_db_file, tmp_file, committed, tailFrame>>

\* f"{pct:.1f}" of uploaded / total * 100, in tenths of a percent; with no
\* candidate, 100.0 when something was uploaded and 0.0 otherwise.
PctTenths(uploaded, total) ==
    IF total # 0 THEN (uploaded * 2000 + total) \div (2 * total)
    ELSE IF uploaded # 0 THEN 1000 ELSE 0

NoPct == -1

\* The per-source status lines: os.path.exists(src) is asked again here.
DriveReportLines ==
    [s \in 1..Len(SOURCE_DRIVES) |->
        IF ~Exists(SOURCE_DRIVES[s].source)
        THEN [drive_name |-> SOURCE_DRIVES[s].drive_name, status |-> "Offline",
              pct |-> NoPct]
        ELSE [drive_name |-> SOURCE_DRIVES[s].drive_name, status |-> "Online",
              pct |-> PctTenths(drive_uploaded[SOURCE_DRIVES[s].drive_name],
                                drive_totals[SOURCE_DRIVES[s].drive_name])]]

\* The bucket listing of a real run (its result only feeds the size and cost
\* texts, and its failure is logged), the drive lines, and
\* report = {..., "errors": run_manifest["errors"], "interrupted": bool(_interrupted)}
BuildReport ==
    /\ pc = "report"
    /\ list_calls' = IF dry_run THEN list_calls ELSE list_calls + 1
    /\ report' = [built |-> TRUE, interrupted |-> interrupted,
                  errors |-> run_manifest.errors,
                  files_processed |-> processed_files,
                  files_uploaded |-> Len(uploaded_keys),
                  drive_report_lines |-> DriveReportLines]
    /\ pc' = "main"
    /\ UNCHANGED <<run_manifest, hash_db_file, tmp_file, save_state, save_arg,
                   committed, events, tailFrame>>

\* ---------------------------------------------------------------------------
\* __main__ after backup_run: notification, manifest file, exit code
\* ---------------------------------------------------------------------------
mainFrame ==
    <<dry_run, interrupted, candidates, drive_present, idx, persisted_hashes,
      persisted_is_dict, updated_hashes, content_hash_to_s3key, seen_paths,
      processed_files,
      drive_uploaded, file_hash, uploaded_keys, run_manifest, report, diskVars,
      envVars, run_no, put_calls, list_calls, ledger_at_start, save_state,
      last_uploaded, committed, prev_ok, fs_stable, failed_now, failed_before,
      save_arg, crash_pc>>

\* backup_run raises before its loop: dict(persisted_hashes) on a value that is
\* no mapping, or SOURCE_DRIVES.items() in gather_candidate_files on a value that
\* is no dict.
BackupRunRaises ==
    /\ pc = "start"
    /\ ~(~DictRaises(hash_db_file) /\ SourceDrivesIsDict)
    /\ pc' = "fatal"
    /\ UNCHANGED <<outVars, exit_code, events, mainFrame>>

\* persisted_hashes.get raises: the loaded value has no get.
UnchangedCheckRaises ==
    /\ pc = "decide"
    /\ content_hash_to_s3key[file_hash] = NoKey
    /\ ~persisted_is_dict
    /\ pc' = "fatal"
    /\ UNCHANGED <<outVars, exit_code, events, mainFrame>>

FatalEntry == [path |-> NoPath, error |-> "fatal"]

\* The drive lines of the synthetic report: Offline, or Online (Backed up 0%).
SyntheticDriveLines ==
    [s \in 1..Len(SOURCE_DRIVES) |->
        IF ~Exists(SOURCE_DRIVES[s].source)
        THEN [drive_name |-> SOURCE_DRIVES[s].drive_name, status |-> "Offline",
              pct |-> NoPct]
        ELSE [drive_name |-> SOURCE_DRIVES[s].drive_name, status |-> "Online",
              pct |-> 0]]

\* except Exception in __main__: the synthetic report, and a manifest that holds
\* the error only (its other keys are absent: the lists read as empty and
\* "interrupted" as not set).
HandleFatal ==
    /\ pc = "fatal"
    /\ SourceDrivesIsDict
    /\ report' = [built |-> FALSE, interrupted |-> TRUE, errors |-> <<FatalEntry>>,
                  files_processed |-> 0, files_uploaded |-> 0,
                  drive_report_lines |-> SyntheticDriveLines]
    /\ run_manifest' = [EmptyManifest EXCEPT !.errors = <<FatalEntry>>]
    /\ pc' = "main"
    /\ UNCHANGED <<dry_run, interrupted, candidates, drive_present, idx,
                   persisted_hashes, persisted_is_dict, updated_hashes,
                   content_hash_to_s3key, seen_paths, processed_files, drive_uploaded,
                   file_hash, uploaded_keys, exit_code, diskVars, envVars, histVars,
                   run_no>>

\* The exit status of a Python process ended by an uncaught exception.
UncaughtExit == 1

\* The except block itself raises while it builds the drive lines from
\* SOURCE_DRIVES.items(): the exception is uncaught and the process ends there.
HandlerRaises ==
    /\ pc = "fatal"
    /\ ~SourceDrivesIsDict
    /\ exit_code' = UncaughtExit
    /\ pc' = "done"
    /\ UNCHANGED <<outVars, events, mainFrame>>

\* The subject and body are composed; sns.publish is called when a topic is
\* configured, and its failure is only logged.
Notify ==
    /\ pc = "main"
    /\ \E ok \in BOOLEAN :
           /\ ~ok => (SNS_TOPIC_ARN # "None" /\ events < MaxEvents)
           /\ sns_state' = IF SNS_TOPIC_ARN = "None" THEN "skipped"
                           ELSE IF ok THEN "sent" ELSE "failed"
           /\ events' = IF ok THEN events ELSE events + 1
    /\ pc' = "write_manifest"
    /\ UNCHANGED <<manifest_state, exit_code, mainFrame>>

\* The masked manifest file is written; a failure is only logged.
WriteManifest ==
    /\ pc = "write_manifest"
    /\ \E ok \in BOOLEAN :
           /\ ~ok => events < MaxEvents
           /\ manifest_state' = IF ok THEN "written" ELSE "failed"
           /\ events' = IF ok THEN events ELSE events + 1
    /\ pc' = "exit"
    /\ UNCHANGED <<sns_state, exit_code, mainFrame>>

\* An exit code that looks at the error list only.
ExitCodeErrorsOnly(rep) ==
    IF rep.errors # <<>> THEN 2 ELSE 0

ExitCode(rep) ==
    IF rep.interrupted \/ rep.errors # <<>> THEN 2 ELSE 0

Exit ==
    /\ pc = "exit"
    /\ exit_code' = ExitCode(report)
    /\ pc' = "done"
    /\ UNCHANGED <<outVars, events, mainFrame>>

\* The process image is gone: nothing of its memory survives.
ClearProcess ==
    /\ pc' = "idle"
    /\ dry_run' = FALSE
    /\ interrupted' = FALSE
    /\ candidates' = <<>>
    /\ drive_present' = NoDrives
    /\ idx' = 0
    /\ persisted_hashes' = EmptyDb
    /\ persisted_is_dict' = TRUE
    /\ updated_hashes' = EmptyDb
    /\ content_hash_to_s3key' = [h \in Hashes |-> NoKey]
    /\ seen_paths' = {}
    /\ processed_files' = 0
    /\ drive_uploaded' = NoDrives
    /\ file_hash' = NoHash
    /\ uploaded_keys' = <<>>
    /\ run_manifest' = EmptyManifest
    /\ report' = NoReport
    /\ exit_code' = NoExit
    /\ fs_stable' = TRUE

\* The process has exited.
ProcessEnd ==
    /\ pc = "done"
    /\ ClearProcess
    /\ crash_pc' = "none"
    /\ put_calls' = 0
    /\ list_calls' = 0
    /\ sns_state' = "none"
    /\ manifest_state' = "none"
    /\ ledger_at_start' = hash_db_file
    /\ save_state' = "none"
    /\ save_arg' = EmptyDb
    /\ failed_before' = {}
    /\ prev_ok' = (~dry_run /\ exit_code = 0)
    /\ UNCHANGED <<diskVars, envVars, run_no, last_uploaded, committed, failed_now,
                   events>>

\* Between two processes a file's content changes.
FsChange(p, c) ==
    /\ pc = "idle"
    /\ run_no >= 1
    /\ run_no < MaxRuns
    /\ events < MaxEvents
    /\ fs[p] # Absent
    /\ c # fs[p]
    /\ fs' = [fs EXCEPT ![p] = c]
    /\ events' = events + 1
    /\ fs_stable' = FALSE
    /\ failed_now' = failed_now \ {p}
    /\ UNCHANGED <<procVars, envVars, hash_db_file, tmp_file, run_no, put_calls,
                   list_calls, outVars, ledger_at_start, save_state, last_uploaded,
                   committed, prev_ok, failed_before, save_arg, crash_pc>>

\* A drive or share is unplugged or plugged in, at any moment.
DriveChange(a) ==
    /\ events < MaxEvents
    /\ online' = IF a \in online THEN online \ {a} ELSE online \cup {a}
    /\ events' = events + 1
    /\ fs_stable' = FALSE
    /\ UNCHANGED <<procVars, env, diskVars, run_no, put_calls, list_calls, outVars,
                   ledger_at_start, save_state, last_uploaded, committed, prev_ok,
                   failed_now, failed_before, save_arg, crash_pc>>

\* The process is killed (SIGKILL, power loss of the host process) at any point.
Crash ==
    /\ pc \notin {"idle", "done"}
    /\ ClearProcess
    /\ events < MaxEvents
    /\ events' = events + 1
    /\ crash_pc' = pc
    /\ prev_ok' = FALSE
    /\ UNCHANGED <<diskVars, envVars, run_no, put_calls, list_calls, outVars,
                   ledger_at_start, save_state, last_uploaded, committed,
                   failed_now, failed_before, save_arg>>

\* ---------------------------------------------------------------------------
\* Specifications
\* ---------------------------------------------------------------------------
ProcStep ==
    \/ Prewarn
    \/ BackupRunStart
    \/ LoopDone
    \/ LoopBreak
    \/ LoopNext
    \/ HashOk
    \/ HashError
    \/ DuplicateSkip
    \/ UnchangedSkip
    \/ DryUpload
    \/ UploadOk
    \/ UploadFail
    \/ Finish
    \/ SaveOpenTmp
    \/ SaveDump
    \/ SaveReplace
    \/ SaveFail
    \/ BuildReport
    \/ Notify
    \/ WriteManifest
    \/ Exit

Next ==
    \/ \E d \in BOOLEAN : StartProcess(d)
    \/ SignalHandler
    \/ ProcStep
    \/ ProcessEnd
    \/ \E p \in Paths, c \in Contents : FsChange(p, c)

Spec == Init /\ [][Next]_vars

\* The process is one thread of control: its next step is always taken.
FairSpec == Init /\ [][Next]_vars /\ WF_vars(ProcStep)

\* The same runs, with the process liable to be killed at any step.
CrashNext == Next \/ Crash

CrashSpec == Init /\ [][CrashNext]_vars

\* Scans: three SOURCE_DRIVES tables (two drives; a root nested in another; a
\* share whose name the exclusion list matches), every file present, every
\* drive plugged in at first, and drives coming and going at any moment.
ScanFs ==
    [p \in Paths |->
        IF p \in {FileA, FileB, FileU} THEN "H1" ELSE "H2"]

ScanInit ==
    /\ fs = ScanFs
    /\ online = Anchors
    /\ env \in {SetEnv("dict", StdDrives), SetEnv("dict", NestedDrives),
                 SetEnv("dict", UncDrives)}
    /\ hash_db_file = MissingFile
    /\ NotStarted

ScanNext ==
    \/ Next
    \/ \E a \in Anchors : DriveChange(a)
    \/ UploadFileGone

ScanSpec == ScanInit /\ [][ScanNext]_vars

\* Environments: settings left unset, SOURCE_DRIVES_JSON that is no dict, and a
\* ledger file in any state.
EnvFs ==
    [p \in Paths |->
        IF p \in {FileA, FileB} THEN "H1" ELSE IF p = FileC THEN "H2" ELSE Absent]

Envs ==
    {StdEnv,
     [StdEnv EXCEPT !.S3_BUCKET = "unset"],
     [StdEnv EXCEPT !.KMS_KEY_ARN = "unset"],
     [StdEnv EXCEPT !.SNS_TOPIC_ARN = "unset"],
     SetEnv("unset", <<>>),
     SetEnv("other", <<>>)}

LedgerFiles ==
    {MissingFile, PartialFile, ListFile, ScalarFile,
     JsonFile([EmptyDb EXCEPT ![FileA] = "H1"])}

EnvInit ==
    /\ fs = EnvFs
    /\ online = {"C:", "E:"}
    /\ env \in Envs
    /\ hash_db_file \in LedgerFiles
    /\ NotStarted

EnvNext ==
    \/ Next
    \/ BackupRunRaises
    \/ UnchangedCheckRaises
    \/ HandleFatal
    \/ HandlerRaises
    \/ UploadRejected

EnvSpec == EnvInit /\ [][EnvNext]_vars

\* Labels: the two-drive table, a root nested in another, and two roots that
\* share a label; every file present and every drive plugged in.
LabelInit ==
    /\ fs = ScanFs
    /\ online = Anchors
    /\ env \in {SetEnv("dict", StdDrives), SetEnv("dict", NestedDrives),
                 SetEnv("dict", SharedDrives)}
    /\ hash_db_file = MissingFile
    /\ NotStarted

LabelSpec == LabelInit /\ [][Next]_vars

\* ---------------------------------------------------------------------------
\* Outcomes of the current run, read off the manifest
\* ---------------------------------------------------------------------------
CandidatePaths == {Candidates[i].path : i \in 1..Len(Candidates)}

UploadedPaths ==
    {run_manifest.uploaded[i].path : i \in 1..Len(run_manifest.uploaded)}
DuplicatePaths ==
    {run_manifest.skipped_duplicates[i].path :
        i \in 1..Len(run_manifest.skipped_duplicates)}
UnchangedPaths ==
    {run_manifest.unchanged[i] : i \in 1..Len(run_manifest.unchanged)}
ErrorPaths(kind) ==
    {run_manifest.errors[i].path :
        i \in {j \in 1..Len(run_manifest.errors) : run_manifest.errors[j].error = kind}}
HashFailedPaths == ErrorPaths("hash")
PutFailedPaths == ErrorPaths("upload")
FailedPaths == HashFailedPaths \cup PutFailedPaths
OutcomePaths == UploadedPaths \cup DuplicatePaths \cup UnchangedPaths \cup FailedPaths

\* Outcomes recorded so far, over all manifest lists.
OutcomeCount ==
    Len(run_manifest.uploaded) + Len(run_manifest.skipped_duplicates)
    + Len(run_manifest.unchanged)
    + Cardinality({j \in 1..Len(run_manifest.errors) :
                      run_manifest.errors[j].error \in {"hash", "upload"}})

\* The for loop is over (exhausted or broken out of).
LoopOver ==
    pc \in {"finish", "save", "save_dump", "save_replace", "report", "main",
            "write_manifest", "exit", "done"}

\* The for loop ran through every candidate.
LoopComplete == LoopOver /\ idx > Len(Candidates)

\* The loop is over and no signal has arrived in this process.
Uninterrupted == LoopOver /\ ~interrupted

\* Position of a path in the candidate list.
IndexOf(p) == CHOOSE i \in 1..Len(Candidates) : Candidates[i].path = p

DiskLedger == LoadHashDb(hash_db_file)

\* ---------------------------------------------------------------------------
\* C1
\* ---------------------------------------------------------------------------
\* C1 as stated: a second run with no file change since the first, loading the
\* ledger the first left, uploads nothing and skips every candidate as unchanged.
C1_IdempotenceAsStated ==
    (run_no >= 2 /\ fs_stable /\ Uninterrupted)
        => /\ run_manifest.uploaded = <<>>
           /\ UnchangedPaths = CandidatePaths

\* C1 (amended): when the first run was a real (non-dry) run that exited with
\* code 0 and no file changed since, the next run makes no put, records no upload,
\* duplicate skip or failure, every candidate it visits is SkippedUnchanged, and
\* when no signal interrupts it every candidate is.
C1_Idempotence ==
    (run_no >= 2 /\ fs_stable /\ prev_ok /\ pc # "idle")
        => /\ run_manifest.uploaded = <<>>
           /\ run_manifest.skipped_duplicates = <<>>
           /\ FailedPaths = {}
           /\ put_calls = 0
           /\ LoopOver => UnchangedPaths = seen_paths
           /\ Uninterrupted => UnchangedPaths = CandidatePaths

C1_Witness ==
    /\ run_no = 2
    /\ fs_stable
    /\ prev_ok
    /\ pc = "done"
    /\ ~dry_run
    /\ Len(run_manifest.unchanged) = Len(Candidates)
    /\ \E p, q \in Paths : p # q /\ fs[p] = fs[q]

\* ---------------------------------------------------------------------------
\* C2
\* ---------------------------------------------------------------------------
\* The key recorded for the upload of path p in this run.
UploadKeyOf(p) ==
    LET i == CHOOSE j \in 1..Len(run_manifest.uploaded) :
                 run_manifest.uploaded[j].path = p
    IN  run_manifest.uploaded[i].s3_key

\* The key a duplicate skip of path p refers to.
ExistingKeyOf(p) ==
    LET i == CHOOSE j \in 1..Len(run_manifest.skipped_duplicates) :
                 run_manifest.skipped_duplicates[j].path = p
    IN  run_manifest.skipped_duplicates[i].existing_s3_key

\* C2 as stated: of any two distinct processed candidates with the same content,
\* one is uploaded (or dry-uploaded), the other is a duplicate skip referring to
\* the key of that upload, and the working ledger maps both to the hash.
C2_CrossPathDedupAsStated ==
    LoopOver =>
        \A p, q \in seen_paths :
            (IndexOf(p) < IndexOf(q) /\ fs[p] = fs[q] /\ fs[p] \in Hashes)
                => /\ p \in UploadedPaths
                   /\ q \in DuplicatePaths
                   /\ ExistingKeyOf(q) = UploadKeyOf(p)
                   /\ updated_hashes[p] = fs[p]
                   /\ updated_hashes[q] = fs[q]

\* The processed candidates whose content is h.
SameContent(h) == {p \in seen_paths : fs[p] = h}

\* The earliest processed candidate of a non-empty set.
FirstOf(G) == CHOOSE p \in G : \A q \in G : IndexOf(p) <= IndexOf(q)

\* C2 (amended): among the candidates with one content processed in a run, when
\* the first processed is new or changed against the loaded ledger and its put
\* does not fail, that first one is Uploaded/DryUploaded, every other one is a
\* duplicate skip referring to the first one's key, and the working ledger maps
\* all of them to the hash.
C2_CrossPathDedup ==
    LoopOver =>
        \A h \in Hashes :
            LET G == SameContent(h) IN
            (G # {} /\ persisted_hashes[FirstOf(G)] # h
                    /\ FirstOf(G) \notin PutFailedPaths)
                => /\ FirstOf(G) \in UploadedPaths
                   /\ UploadKeyOf(FirstOf(G)) =
                          S3Key(FirstOf(G), Candidates[IndexOf(FirstOf(G))].drive_name)
                   /\ \A q \in G \ {FirstOf(G)} :
                          /\ q \in DuplicatePaths
                          /\ q \notin UploadedPaths
                          /\ ExistingKeyOf(q) = UploadKeyOf(FirstOf(G))
                   /\ \A q \in G : updated_hashes[q] = h

C2_Witness ==
    /\ LoopComplete
    /\ persisted_hashes = EmptyDb
    /\ Len(run_manifest.uploaded) = 1
    /\ Len(run_manifest.skipped_duplicates) = 2
    /\ CandidatePaths = {FileA, FileB, FileC}
    /\ \A p \in CandidatePaths : updated_hashes[p] = fs[FileA]

\* ---------------------------------------------------------------------------
\* C3
\* ---------------------------------------------------------------------------
\* What holds of a failed put in the run it happens in: the path's working ledger
\* entry is the loaded one, and a loop that is not interrupted still gives every
\* candidate an outcome.
FailureContained ==
    /\ \A p \in PutFailedPaths :
           /\ updated_hashes[p] = persisted_hashes[p]
           /\ updated_hashes[p] # fs[p]
    /\ Uninterrupted => OutcomePaths = CandidatePaths

\* C3 as stated: a failed put is recorded as Failed with the ledger entry left
\* alone and the remaining candidates processed, and the next run, finding the
\* file unchanged, attempts its upload again (a put, or its dry-run simulation).
C3_UploadFailureAsStated ==
    /\ FailureContained
    /\ \A p \in failed_before :
           p \in OutcomePaths => p \in UploadedPaths \cup PutFailedPaths

\* C3 (amended): as stated, except that the next run over the unchanged file
\* either attempts the upload again or, when the same content was uploaded
\* earlier in that run, records SkippedDuplicateContent; it never treats the
\* file as unchanged.
C3_UploadFailure ==
    /\ FailureContained
    /\ \A p \in failed_before :
           p \in OutcomePaths
               => /\ p \in UploadedPaths \cup PutFailedPaths \cup DuplicatePaths
                  /\ p \notin UnchangedPaths
                  /\ p \in DuplicatePaths
                         => \E q \in UploadedPaths :
                                /\ fs[q] = fs[p]
                                /\ IndexOf(q) < IndexOf(p)

C3_Witness ==
    /\ run_no = 2
    /\ ~dry_run
    /\ LoopComplete
    /\ \E p \in failed_before : p \in UploadedPaths /\ updated_hashes[p] = fs[p]

\* ---------------------------------------------------------------------------
\* C4
\* ---------------------------------------------------------------------------
UnreadablePaths == {p \in CandidatePaths : fs[p] = Unreadable}

TheUnreadable == CHOOSE p \in UnreadablePaths : TRUE

\* What holds of a finished run with exactly one unreadable candidate whatever
\* else happens: a non-zero exit code, and the unreadable path's ledger entry
\* (working copy and file) as it was loaded.
UnreadableIsolated ==
    /\ exit_code # 0
    /\ updated_hashes[TheUnreadable] = persisted_hashes[TheUnreadable]
    /\ DiskLedger[TheUnreadable] = LoadHashDb(ledger_at_start)[TheUnreadable]

\* C4 as stated: with exactly one unreadable candidate among N the run completes,
\* the other N-1 each get a non-Failed outcome (in a run no signal interrupts),
\* the exit code is non-zero and the unreadable path's ledger entry is untouched.
C4_PartialFailureAsStated ==
    (pc = "done" /\ Cardinality(UnreadablePaths) = 1)
        => /\ UnreadableIsolated
           /\ Uninterrupted =>
                  \A p \in CandidatePaths \ UnreadablePaths :
                      p \in (UploadedPaths \cup DuplicatePaths \cup UnchangedPaths)

\* C4 (amended): with exactly one unreadable candidate among N the run completes
\* with a non-zero exit code and the unreadable path's ledger entry untouched;
\* in a run no signal interrupts, the unreadable file is the only hash failure and
\* each of the other N-1 gets exactly one outcome, which is Failed only when that
\* file's own put fails; with no put failure all N-1 outcomes are non-Failed.
C4_PartialFailure ==
    (pc = "done" /\ Cardinality(UnreadablePaths) = 1)
        => /\ UnreadableIsolated
           /\ Uninterrupted =>
                  /\ HashFailedPaths = UnreadablePaths
                  /\ OutcomeCount = Len(Candidates)
                  /\ \A p \in CandidatePaths \ UnreadablePaths :
                         /\ p \in OutcomePaths
                         /\ p \in FailedPaths <=> p \in PutFailedPaths
                         /\ p \in PutFailedPaths => p \in failed_now
                  /\ failed_now = {} =>
                         \A p \in CandidatePaths \ UnreadablePaths :
                             p \in (UploadedPaths \cup DuplicatePaths \cup UnchangedPaths)

C4_Witness ==
    /\ pc = "done"
    /\ ~dry_run
    /\ UnreadablePaths = {FileB}
    /\ LoopComplete
    /\ FailedPaths = {FileB}
    /\ Len(run_manifest.uploaded) = 2
    /\ save_state = "saved"
    /\ exit_code = 2
    /\ DiskLedger[FileB] = NoHash

\* ---------------------------------------------------------------------------
\* C5
\* ---------------------------------------------------------------------------
\* C5: whatever step a save is cut at (an exception or the process being
\* killed), HASH_DB_FILE is never truncated or partly written, and load_hash_db
\* returns either the mapping it returned before the save or the mapping saved.
C5_SaveAtomic ==
    /\ hash_db_file.kind \in {"missing", "json"}
    /\ \/ DiskLedger = LoadHashDb(ledger_at_start)
       \/ save_state # "none" /\ DiskLedger = save_arg
    /\ save_state \in {"none", "failed", "attempted"} => hash_db_file = ledger_at_start
    /\ save_state = "saved" => hash_db_file = JsonFile(save_arg)

C5_Witness ==
    /\ pc = "idle"
    /\ crash_pc = "save_dump"
    /\ tmp_file.kind = "partial"
    /\ ledger_at_start.kind = "json"
    /\ save_arg # LoadHashDb(ledger_at_start)
    /\ hash_db_file = ledger_at_start

\* ---------------------------------------------------------------------------
\* C6
\* ---------------------------------------------------------------------------
\* C6 as stated, read on the ledger file between runs: every entry is the hash
\* of the path's most recent successful upload, and a path without an entry has
\* never been uploaded.
C6_LedgerInvariantAsStated ==
    pc \in {"idle", "done"} =>
        \A p \in Paths :
            /\ DiskLedger[p] # NoHash => DiskLedger[p] = last_uploaded[p]
            /\ DiskLedger[p] = NoHash => last_uploaded[p] = NoHash

\* C6 (amended): over any sequence of runs from an empty ledger, every entry of
\* the ledger file is the hash the path had when it was last Uploaded or
\* SkippedDuplicateContent in a real run whose save succeeded, and a path without
\* an entry was never uploaded or dedup-skipped in such a run; dry runs and runs
\* whose save fails leave the file as it was.
C6_LedgerInvariant ==
    /\ DiskLedger = committed
    /\ \A p \in Paths :
           DiskLedger[p] # NoHash =>
               \E q \in Paths : last_uploaded[q] # NoHash
    /\ (pc \in {"idle", "done"} /\ save_state # "saved") => hash_db_file = ledger_at_start

C6_Witness ==
    /\ pc = "done"
    /\ run_no = 2
    /\ \E p \in Paths : DiskLedger[p] # NoHash /\ last_uploaded[p] = NoHash
    /\ \E p \in Paths : DiskLedger[p] # last_uploaded[p] /\ last_uploaded[p] # NoHash

\* ---------------------------------------------------------------------------
\* C7
\* ---------------------------------------------------------------------------
\* C7: in a dry run, whatever the candidates, the ledger, the failures and the
\* signals, no put is made and the ledger file stays what it was at the start.
C7_DryRunNoDurableChange ==
    (dry_run /\ pc # "idle")
        => /\ put_calls = 0
           /\ hash_db_file = ledger_at_start
           /\ save_state = "none"
           /\ \A i \in 1..Len(run_manifest.uploaded) :
                  run_manifest.uploaded[i].action = "dry_upload"

C7_Witness ==
    /\ dry_run
    /\ pc = "done"
    /\ run_no = 2
    /\ hash_db_file.kind = "json"
    /\ Len(run_manifest.uploaded) >= 1
    /\ HashFailedPaths # {}
    /\ interrupted
    /\ updated_hashes # DiskLedger

\* ---------------------------------------------------------------------------
\* C8
\* ---------------------------------------------------------------------------
\* Once the save has succeeded the ledger file holds the hash of every path
\* uploaded or dedup-skipped in this run.
SavedHasProgress ==
    save_state = "saved" =>
        /\ \A i \in 1..Len(run_manifest.uploaded) :
               DiskLedger[run_manifest.uploaded[i].path] = run_manifest.uploaded[i].hash
        /\ \A p \in DuplicatePaths : DiskLedger[p] = fs[p]

\* C8: every real run that reaches the loop, interrupted or with per-file
\* errors or not, goes on to attempt the ledger save, and a ledger it saves holds
\* the hash of every file uploaded or dedup-skipped before the loop stopped.
C8_PartialProgress ==
    /\ []SavedHasProgress
    /\ (pc = "loop" /\ ~dry_run) ~> (save_state # "none")

C8_Witness ==
    /\ save_state = "saved"
    /\ interrupted
    /\ idx <= Len(Candidates)
    /\ Len(run_manifest.uploaded) >= 1
    /\ PutFailedPaths # {}

\* ---------------------------------------------------------------------------
\* C9
\* ---------------------------------------------------------------------------
IsPrefix(s, t) == Len(s) <= Len(t) /\ SubSeq(t, 1, Len(s)) = s

\* What a step of the process does with the flag set.
InterruptStep ==
    \* at the top of an iteration: leave the loop, touch nothing
    /\ (pc = "loop" /\ interrupted /\ idx <= Len(Candidates))
           => /\ pc' = "finish"
              /\ UNCHANGED <<run_manifest, updated_hashes, seen_paths, put_calls,
                             uploaded_keys, content_hash_to_s3key, idx>>
    \* in the middle of a file: go on to its outcome
    /\ (pc = "hash" /\ interrupted)
           => \/ pc' = "decide" /\ file_hash' = fs[abs_path]
              \/ pc' = "loop" /\ OutcomeCount' = OutcomeCount + 1
    /\ (pc = "decide" /\ interrupted)
           => /\ pc' = "loop"
              /\ OutcomeCount' = OutcomeCount + 1
              /\ abs_path \in OutcomePaths'
    \* once the loop is left: no more hashing, uploading, outcomes, ledger updates
    /\ (LoopOver /\ pc' # "idle")
           => /\ OutcomeCount' = OutcomeCount
              /\ UNCHANGED <<updated_hashes, seen_paths, put_calls, uploaded_keys>>
    \* recorded outcomes are kept
    /\ pc' # "idle"
           => /\ IsPrefix(run_manifest.uploaded, run_manifest'.uploaded)
              /\ IsPrefix(run_manifest.skipped_duplicates,
                          run_manifest'.skipped_duplicates)
              /\ IsPrefix(run_manifest.unchanged, run_manifest'.unchanged)
              /\ IsPrefix(run_manifest.errors, run_manifest'.errors)

\* After the loop every candidate visited has exactly one outcome, and every
\* candidate not visited has none and its loaded ledger entry.
VisitedOnly ==
    LoopOver =>
        /\ OutcomePaths = seen_paths
        /\ OutcomeCount = Cardinality(seen_paths)
        /\ seen_paths = {Candidates[i].path : i \in 1..(idx - 1)}
        /\ \A p \in Paths \ seen_paths : updated_hashes[p] = persisted_hashes[p]

\* C9: the flag can be set at any point; a file whose processing has begun runs
\* to its outcome and ledger update; from the next iteration on no candidate is
\* hashed, uploaded, given an outcome or written to the ledger, and the outcomes
\* already recorded are kept.
C9_InterruptAtFileBoundary ==
    /\ [][InterruptStep]_vars
    /\ []VisitedOnly

C9_Witness ==
    /\ interrupted
    /\ pc = "finish"
    /\ idx = 2
    /\ Len(run_manifest.uploaded) = 1
    /\ updated_hashes[FileA] = fs[FileA]
    /\ updated_hashes[FileB] = NoHash
    /\ fs[FileB] \in Hashes

\* ---------------------------------------------------------------------------
\* C10
\* ---------------------------------------------------------------------------
\* C10 as stated: the exit code is 0 exactly when the flag was never set and no
\* candidate got a Failed outcome, and 2 otherwise.
C10_ExitCodeAsStated ==
    pc = "done" =>
        /\ exit_code \in {0, 2}
        /\ exit_code = 0 <=> (~interrupted /\ FailedPaths = {})

\* C10 (amended): the exit code is 0 exactly when the flag was not set by the
\* time backup_run built its report, no candidate got a Failed outcome and the
\* ledger save did not fail; it is 2 otherwise.
C10_ExitCode ==
    pc = "done" =>
        /\ exit_code \in {0, 2}
        /\ report.built
        /\ exit_code = 0 <=>
               (~report.interrupted /\ FailedPaths = {} /\ save_state # "failed")
        /\ report.interrupted => interrupted
        /\ run_manifest.interrupted => report.interrupted

C10_Witness ==
    /\ pc = "done"
    /\ exit_code = 2
    /\ save_state = "failed"
    /\ ~interrupted
    /\ FailedPaths = {}
    /\ Len(run_manifest.uploaded) >= 1

\* ---------------------------------------------------------------------------
\* C11
\* ---------------------------------------------------------------------------
\* The candidates given an outcome whose loaded ledger entry is their hash.
LedgerMatches == {p \in OutcomePaths : persisted_hashes[p] = fs[p]}

\* Every candidate was visited and skipped as unchanged.
AllUnchanged == LoopComplete /\ UnchangedPaths = CandidatePaths

\* backup_run has returned: the bucket listing, if any, is behind.
Reported == pc \in {"main", "write_manifest", "exit", "done"}

\* C11 as stated: a candidate whose ledger entry equals its fresh hash is
\* SkippedUnchanged with its entry untouched, and a run in which every candidate
\* is unchanged makes no call to the remote store.
C11_UnchangedNoTrafficAsStated ==
    /\ \A p \in LedgerMatches :
           p \in UnchangedPaths /\ updated_hashes[p] = persisted_hashes[p]
    /\ AllUnchanged => (put_calls = 0 /\ list_calls = 0)

\* C11 (amended): a candidate whose ledger entry equals its fresh hash is never
\* uploaded or failed and keeps its entry; it is SkippedUnchanged unless the same
\* content was uploaded earlier in the run, and then SkippedDuplicateContent. A
\* run in which every candidate is unchanged makes no put; a dry run makes no
\* remote call at all, a real run exactly one: the bucket listing of the report.
C11_UnchangedNoTraffic ==
    /\ \A p \in LedgerMatches :
           /\ p \notin UploadedPaths \cup FailedPaths
           /\ updated_hashes[p] = persisted_hashes[p]
           /\ p \in UnchangedPaths \cup DuplicatePaths
           /\ p \in DuplicatePaths =>
                  \E q \in UploadedPaths : fs[q] = fs[p] /\ IndexOf(q) < IndexOf(p)
    /\ \A p \in UnchangedPaths : p \in LedgerMatches
    /\ AllUnchanged =>
           /\ put_calls = 0
           /\ run_manifest.uploaded = <<>>
           /\ list_calls = IF ~dry_run /\ Reported THEN 1 ELSE 0

C11_Witness ==
    /\ pc = "done"
    /\ ~dry_run
    /\ AllUnchanged
    /\ Len(Candidates) = 3
    /\ put_calls = 0
    /\ list_calls = 1
    /\ exit_code = 0

\* ---------------------------------------------------------------------------
\* C12
\* ---------------------------------------------------------------------------
\* C12: no file whose lower-cased full path contains one of the exclusion
\* substrings is ever a candidate, whatever allowed root it lies under, the
\* allowed root itself containing the substring included.
C12_ExclusionCorrectness ==
    \A f \in Paths :
        path_is_excluded(f, EXCLUDE_PATH_PARTS) => f \notin CandidatePaths

C12_Witness ==
    /\ pc = "loop"
    /\ SOURCE_DRIVES = UncDrives
    /\ drive_present["NAS"]
    /\ fs[FileU] # Absent
    /\ path_is_excluded(FileU, EXCLUDE_PATH_PARTS)
    /\ path_is_excluded(<<FileU[1], FileU[2]>>, EXCLUDE_PATH_PARTS)
    /\ ~path_is_excluded(FileD, EXCLUDE_PATH_PARTS)
    /\ CandidatePaths = {FileA, FileB, FileD}

\* ---------------------------------------------------------------------------
\* C13
\* ---------------------------------------------------------------------------
\* backup_run has scanned: candidates and drive_present are those of this run.
Scanned == pc \notin {"idle", "prewarn", "start", "fatal"}

\* The files on disk that lie in an allowed folder of the source at position s
\* (root\<allowed> or root\Users\<name>\<allowed>) and are not excluded.
FilesOf(s) ==
    LET root == SOURCE_DRIVES[s].source
        names == {ALLOWED_FOLDER_NAMES[i] : i \in 1..Len(ALLOWED_FOLDER_NAMES)}
    IN  {f \in Paths :
            /\ fs[f] # Absent
            /\ StartsWith(f, root)
            /\ Len(f) > Len(root) + 1
            /\ ~path_is_excluded(f, EXCLUDE_PATH_PARTS)
            /\ IF f[Len(root) + 1] = "Users"
               THEN Len(f) > Len(root) + 3 /\ f[Len(root) + 3] \in names
               ELSE f[Len(root) + 1] \in names}

\* The positions of the sources whose root was missing, or was there, at the scan.
MissingSources ==
    {s \in 1..Len(SOURCE_DRIVES) : ~drive_present[SOURCE_DRIVES[s].drive_name]}
PresentSources ==
    {s \in 1..Len(SOURCE_DRIVES) : drive_present[SOURCE_DRIVES[s].drive_name]}

\* C13: a source whose root is missing at scan time yields no candidate and no
\* error entry; the sources that are present are scanned in full and, in a run no
\* signal interrupts, every candidate of theirs gets its outcome; and when no
\* file fails, the save does not fail and no signal arrives, the exit code is 0.
C13_MissingRootNotAnError ==
    Scanned =>
        /\ \A s \in MissingSources :
               \A i \in 1..Len(Candidates) :
                   Candidates[i].drive_name # SOURCE_DRIVES[s].drive_name
        /\ \A s \in PresentSources : FilesOf(s) \subseteq CandidatePaths
        /\ \A j \in 1..Len(run_manifest.errors) :
               IF run_manifest.errors[j].error = "save_hash_db"
               THEN run_manifest.errors[j].path = NoPath
               ELSE /\ run_manifest.errors[j].error \in {"hash", "upload"}
                    /\ run_manifest.errors[j].path \in CandidatePaths
        /\ Uninterrupted => OutcomePaths = CandidatePaths
        /\ (pc = "done" /\ FailedPaths = {} /\ save_state # "failed"
                /\ ~report.interrupted)
               => exit_code = 0

C13_Witness ==
    /\ pc = "done"
    /\ ~dry_run
    /\ SOURCE_DRIVES = StdDrives
    /\ MissingSources = {1}
    /\ CandidatePaths = {FileC}
    /\ UploadedPaths = {FileC}
    /\ run_manifest.errors = <<>>
    /\ exit_code = 0

\* ---------------------------------------------------------------------------
\* C14
\* ---------------------------------------------------------------------------
\* C14 as stated: in the report backup_run builds, a source is Offline exactly
\* when its root was absent at scan time, and otherwise Online with the percent of
\* its candidates uploaded or dry-uploaded in this run (0% with no candidate and
\* no upload), whatever happens to the root between the scan and the report.
C14_DriveStatusAsStated ==
    report.built =>
        \A s \in 1..Len(SOURCE_DRIVES) :
            LET dn == SOURCE_DRIVES[s].drive_name
                line == report.drive_report_lines[s]
            IN  /\ line.drive_name = dn
                /\ line.status = "Offline" <=> ~drive_present[dn]
                /\ line.status = "Online" <=> drive_present[dn]
                /\ line.status = "Online" =>
                       line.pct = PctTenths(drive_uploaded[dn], drive_totals[dn])

\* ---------------------------------------------------------------------------
\* C15
\* ---------------------------------------------------------------------------
\* backup_run's loop is behind: left at its end or by a break, or left by an
\* exception.
RunEnded == LoopOver \/ pc = "fatal"

\* The paths of the uploaded list, entry by entry.
UploadedSeq == [i \in 1..Len(run_manifest.uploaded) |-> run_manifest.uploaded[i].path]

\* C15 as stated: in any run no path has more than one outcome and none is
\* uploaded twice, and in a run no signal interrupts every unique candidate path
\* has exactly one outcome once the loop is behind.
C15_OneOutcomePerCandidateAsStated ==
    /\ OutcomeCount = Cardinality(OutcomePaths)
    /\ \A i, j \in 1..Len(UploadedSeq) : UploadedSeq[i] = UploadedSeq[j] => i = j
    /\ put_calls <= Cardinality(seen_paths)
    /\ OutcomePaths \subseteq CandidatePaths
    /\ (RunEnded /\ ~interrupted) => OutcomePaths = CandidatePaths

\* ---------------------------------------------------------------------------
\* C16
\* ---------------------------------------------------------------------------
\* C16 as stated: whatever the ledger file holds that is no path-to-hash object
\* (nothing, a truncated document, a JSON list, a JSON scalar), the run works
\* from an empty ledger, and loading or using the ledger raises no fatal error:
\* with a usable configuration no exception escapes backup_run.
C16_LedgerLoadFailsSoftAsStated ==
    /\ (Scanned /\ report.built /\ ledger_at_start.kind # "json")
           => persisted_hashes = EmptyDb
    /\ SourceDrivesIsDict =>
           /\ pc # "fatal"
           /\ \A j \in 1..Len(report.errors) : report.errors[j] # FatalEntry

\* ---------------------------------------------------------------------------
\* C17
\* ---------------------------------------------------------------------------
\* C17 as stated: a process that runs with the placeholder bucket or the
\* placeholder key behaves as a dry run, with --dry-run or without: it calls no
\* put and does not write the ledger file.
C17_PlaceholderDryRunSafeAsStated ==
    (PlaceholderInUse /\ pc # "idle")
        => /\ put_calls = 0
           /\ save_state = "none"
           /\ hash_db_file = ledger_at_start

\* ---------------------------------------------------------------------------
\* C18
\* ---------------------------------------------------------------------------
\* The process has ended without a report from backup_run: an exception escaped it.
EndedByFatal == pc = "done" /\ ~report.built

\* C18 as stated: when an exception escapes backup_run, the process still goes
\* through the publish (attempted when a topic is configured) and the manifest
\* write with the synthetic report, and exits with code 2.
C18_FatalStillReportsAsStated ==
    /\ pc = "done" => report.built \/ report.errors = <<FatalEntry>>
    /\ EndedByFatal =>
           /\ report.interrupted
           /\ sns_state = "skipped" <=> SNS_TOPIC_ARN = "None"
           /\ sns_state \in {"skipped", "sent", "failed"}
           /\ manifest_state \in {"written", "failed"}
           /\ exit_code = 2

\* ---------------------------------------------------------------------------
\* C19
\* ---------------------------------------------------------------------------
\* C19 as stated: every processed file, whatever its outcome, adds a progress
\* sample, so that once the loop is over there are as many samples as files
\* processed, the n-th sample reporting n files done.
C19_ProgressEveryFileAsStated ==
    /\ Len(run_manifest.progress_samples) <= processed_files
    /\ LoopOver =>
           /\ Len(run_manifest.progress_samples) = processed_files
           /\ \A n \in 1..Len(run_manifest.progress_samples) :
                  run_manifest.progress_samples[n] = n

\* ---------------------------------------------------------------------------
\* C20
\* ---------------------------------------------------------------------------
\* C20 as stated: the candidate list backup_run works from, whose length is
\* total_files, holds no absolute path twice, overlapping allowed subtrees and
\* sources of different labels covering the same file included; hence a run no
\* signal interrupts processes total_files files.
C20_CandidatesUniqueAsStated ==
    Scanned =>
        /\ \A i, j \in 1..Len(Candidates) :
               Candidates[i].path = Candidates[j].path => i = j
        /\ total_files = Cardinality(CandidatePaths)
        /\ (Uninterrupted /\ report.built) => processed_files = total_files

\* ---------------------------------------------------------------------------
\* C21
\* ---------------------------------------------------------------------------
\* The entries of the uploaded list that stand for a put made by this run.
PutEntries ==
    {i \in 1..Len(run_manifest.uploaded) : run_manifest.uploaded[i].action = "uploaded"}

\* C21 as stated: two distinct files that are both uploaded (put) in the same run
\* are put under distinct keys date/label/relative-path, so that no put of the
\* run overwrites an object written earlier in the run, whatever the
\* source-mapping table (roots sharing a label, nested roots).
C21_RemoteKeysDistinctAsStated ==
    \A i, j \in PutEntries :
        run_manifest.uploaded[i].path # run_manifest.uploaded[j].path
            => run_manifest.uploaded[i].s3_key # run_manifest.uploaded[j].s3_key

\* ---------------------------------------------------------------------------
\* C22
\* ---------------------------------------------------------------------------
\* The paths whose ledger entry this run sets: uploaded or skipped as duplicates.
UpdatedPaths == UploadedPaths \cup DuplicatePaths

\* C22: throughout a non-dry run, save included, every path of the loaded ledger
\* that the run has neither uploaded nor skipped as a duplicate (not a candidate,
\* unchanged, failed, or not visited at all) is in the ledger file with the hash
\* it was loaded with, and no path of the loaded ledger is missing from the
\* ledger file; once the save is done, the paths the run did upload or skip as
\* duplicates are in the file too.
C22_LedgerOnlyGrows ==
    (Scanned /\ ~dry_run) =>
        /\ \A p \in Paths \ UpdatedPaths :
               persisted_hashes[p] # NoHash => DiskLedger[p] = persisted_hashes[p]
        /\ \A p \in Paths :
               persisted_hashes[p] # NoHash => DiskLedger[p] # NoHash
        /\ save_state = "saved" =>
               \A p \in UpdatedPaths : DiskLedger[p] = updated_hashes[p]

C22_Witness ==
    /\ pc = "done"
    /\ ~dry_run
    /\ save_state = "saved"
    /\ interrupted
    /\ CandidatePaths = {FileA, FileB, FileC}
    /\ OutcomePaths = {FileA}
    /\ UploadedPaths = {FileA}
    /\ persisted_hashes[FileA] \in Hashes
    /\ DiskLedger[FileA] # persisted_hashes[FileA]
    /\ \A p \in {FileB, FileC} :
           /\ persisted_hashes[p] \in Hashes
           /\ DiskLedger[p] = persisted_hashes[p]

\* ---------------------------------------------------------------------------
\* C23
\* ---------------------------------------------------------------------------
\* backup_run has written the counts into its manifest, and the manifest is the
\* one backup_run returned.
CountsWritten ==
    \/ pc \in {"save", "save_dump", "save_replace", "report"}
    \/ pc \in {"main", "write_manifest", "exit", "done"} /\ report.built

\* C23: between two files processed_files is the number of outcomes recorded so
\* far; and once backup_run has written its counts, in a run that completed or
\* was interrupted, files_processed_count is the number of uploaded entries plus
\* skipped-duplicate entries plus unchanged entries plus per-file error entries,
\* files_uploaded_count is the length of the uploaded list, and the report
\* carries the same two numbers.
C23_OutcomeAccounting ==
    /\ pc = "loop" => processed_files = OutcomeCount
    /\ CountsWritten =>
           /\ run_manifest.files_processed_count = OutcomeCount
           /\ run_manifest.files_uploaded_count = Len(run_manifest.uploaded)
           /\ report.built =>
                  /\ report.files_processed = run_manifest.files_processed_count
                  /\ report.files_uploaded = run_manifest.files_uploaded_count

C23_Witness ==
    /\ pc = "done"
    /\ report.built
    /\ UnchangedPaths = {FileA}
    /\ UploadedPaths = {FileB}
    /\ HashFailedPaths = {FileC}
    /\ run_manifest.files_processed_count = 3
    /\ run_manifest.files_uploaded_count = 1

\* ---------------------------------------------------------------------------
\* C24
\* ---------------------------------------------------------------------------
\* C24 as stated: whenever the signal arrives, the interrupted value of the run
\* manifest backup_run returns is the interrupted value of its report, the one
\* the final status and the exit code are computed from.
C24_InterruptedConsistentAsStated ==
    report.built => run_manifest.interrupted = report.interrupted

====
